---- MODULE Spec2Model ----
(***************************************************************************)
(* CompoAI: the layer store, the asynchronous add / decode / background-   *)
(* removal operations, the export and the pointer gesture machine of App   *)
(* (src/components/UIComponents.tsx, lines 116-538), and the mask          *)
(* compositor of the AI service (src/unnamed/part_000, lines 147-229).     *)
(*                                                                         *)
(* Numbers: positions and sizes are integer pixels, rotation is integer    *)
(* degrees, a layer's scale is kept in tenths (1.0 is 10, the 0.1 floor is *)
(* 1) and the viewport scale in thousandths (1.0 is 1000).  Real division  *)
(* is integer division on these units.                                     *)
(***************************************************************************)
EXTENDS Integers, Sequences, FiniteSets, TLC

VARIABLES
    layers,               \* useState<Layer[]>            (line 118)
    selectedLayerId,      \* useState<string | null>      (line 119)
    viewport,             \* useState({x, y, scale})      (line 125)
    aiLoading,            \* aiState.isLoading            (line 128)
    dragStartRef,         \* useRef                       (line 139)
    initialLayerStateRef, \* useRef                       (line 140)
    isDraggingLayerRef,   \* useRef(false)                (line 141)
    transformRef,         \* useRef                       (line 144)
    now,                  \* the last reading of Date.now()
    addReqs,              \* uploads / AI generations in flight (closures that will call addLayer)
    decodes,              \* ids whose img.onload of addLayer is still pending
    bgReq,                \* the background removal in flight: the layer it captured, or NULL
    lastOp,               \* history: the event handled last
    events,               \* history: how many events SpecGesture has handled
    gesture,              \* history: the gesture the last pointer-down started, and its layer
    maskJob,              \* applyMaskToImage: the decoded images and the composite, or NULL
    isExporting,          \* useState(false)             (line 133)
    exportJob             \* handleExport: the run in progress or the last one, or NULL

vars == <<layers, selectedLayerId, viewport, aiLoading, dragStartRef,
          initialLayerStateRef, isDraggingLayerRef, transformRef, now,
          addReqs, decodes, bgReq, lastOp, events, gesture, maskJob,
          isExporting, exportJob>>

exportVars == <<isExporting, exportJob>>

gestureVars == <<dragStartRef, initialLayerStateRef, isDraggingLayerRef, transformRef, gesture>>
asyncVars == <<now, addReqs, decodes, bgReq, aiLoading>>

\* a ref holding null
NULL == [null |-> TRUE]
\* selectedLayerId holding null (falsy, like the empty string; no id is empty)
NoSelection == ""
\* history: no gesture is in progress
Idle == [kind |-> "idle", id |-> NoSelection]

(* ------------------------------ bounds -------------------------------- *)
MaxLayers == 2      \* most layers in the store at once (Spec)
MaxOrderLayers == 3 \* most layers in the store at once (SpecOrder)
MaxClock == 1       \* Date.now() readings are 0..MaxClock (Spec, SpecGesture)
MaxOrderClock == 2  \* Date.now() readings are 0..MaxOrderClock (SpecOrder)
MaxSrc == 2         \* distinct image sources an upload or generation can deliver
MaxPending == 1     \* most uploads / generations in flight at once
MaxEvents == 7      \* most events of one run of SpecGesture, SpecZoom or SpecTransform
MaxTransformLayers == 1 \* most layers in the store at once (SpecTransform)
MaxExportLayers == 3 \* most layers in the store at once (SpecExport)
MaxExportEvents == 2 \* most panel events of one run of SpecExport
MaxBoundsEvents == 4 \* most pointer, wheel and panel events of one run of SpecBounds
MaxSnapshotEvents == 3 \* most pointer and panel events of one run of SpecSnapshot

(* ------------------------- program constants -------------------------- *)
INITIAL_LAYER_WIDTH == 300
\* MAX_ZOOM = 5 and MIN_ZOOM = 0.1, in thousandths
MAX_ZOOM == 5000
MIN_ZOOM == 100

\* window.innerWidth / window.innerHeight read by addLayer
Window == [innerWidth |-> 600, innerHeight |-> 600]

Sources == 1..MaxSrc
\* img.width / img.height of a decoded image
Ratios == {2}

\* An image source: the delivered image `base`, composited with a mask `cuts` times.
Src(b) == [base |-> b, cuts |-> 0]

\* removeBackground(src) resolves to a new data URL derived from src
applyMaskToImage(s) == [s EXCEPT !.cuts = @ + 1]

(* ---------------------------- layer store ----------------------------- *)

\* Date.now().toString(): the decimal numeral of the clock reading
DateNowToString(t) == ToString(t)

\* the Layer literal of addLayer; createdSrc is history (the source at creation)
NewLayer(id, src, n, vp) ==
    [ id |-> id,
      src |-> src,
      originalSrc |-> src,
      x |-> (Window.innerWidth \div 2) - (INITIAL_LAYER_WIDTH \div 2) - vp.x,
      y |-> (Window.innerHeight \div 2) - (INITIAL_LAYER_WIDTH \div 2) - vp.y,
      width |-> INITIAL_LAYER_WIDTH,
      height |-> INITIAL_LAYER_WIDTH,
      rotation |-> 0,
      scale |-> 10,
      opacity |-> 100,
      blendMode |-> "normal",
      isVisible |-> TRUE,
      isLocked |-> FALSE,
      isMasked |-> FALSE,
      zIndex |-> n + 1,
      createdSrc |-> src ]

\* { ...l, ...updates }
Merge(l, updates) ==
    [f \in DOMAIN l |-> IF f \in DOMAIN updates THEN updates[f] ELSE l[f]]

\* prev.map(l => l.id === id ? { ...l, ...updates } : l)
updateLayer(prev, id, updates) ==
    [i \in 1..Len(prev) |-> IF prev[i].id = id THEN Merge(prev[i], updates) ELSE prev[i]]

\* layers.find(l => l.id === id): the index of the first match, 0 when there is none
FindIndex(s, id) ==
    IF \E i \in 1..Len(s) : s[i].id = id
    THEN CHOOSE i \in 1..Len(s) : s[i].id = id /\ \A j \in 1..(i - 1) : s[j].id # id
    ELSE 0

\* prev.filter(l => l.id !== id)
RECURSIVE RemoveId(_, _)
RemoveId(s, id) ==
    IF s = <<>> THEN <<>>
    ELSE IF Head(s).id = id THEN RemoveId(Tail(s), id)
         ELSE <<Head(s)>> \o RemoveId(Tail(s), id)

\* l goes after every element whose zIndex is not greater (keeps equal keys in order)
RECURSIVE InsertByZ(_, _)
InsertByZ(s, l) ==
    IF s = <<>> THEN <<l>>
    ELSE IF s[Len(s)].zIndex <= l.zIndex THEN Append(s, l)
         ELSE Append(InsertByZ(SubSeq(s, 1, Len(s) - 1), l), s[Len(s)])

\* a faulty sort that leaves the store order (C22 must tell it from SortByZ)
SortByZ_storeOrder(s) == s

\* [...s].sort((a, b) => a.zIndex - b.zIndex): a stable sort
RECURSIVE SortByZ(_)
SortByZ(s) ==
    IF s = <<>> THEN <<>>
    ELSE InsertByZ(SortByZ(SubSeq(s, 1, Len(s) - 1)), s[Len(s)])

\* a faulty moveLayer that overwrites a zIndex before saving it in tempZ: both
\* layers end with the neighbour's zIndex (C3 must tell it from moveLayer)
moveLayer_lostTemp(prev, id, direction) ==
    LET sorted == SortByZ(prev)
        index == FindIndex(sorted, id)
        targetIndex == IF direction = "up" THEN index + 1 ELSE index - 1
    IN  IF index = 0 THEN prev
        ELSE IF direction = "up" /\ index = Len(sorted) THEN prev
        ELSE IF direction = "down" /\ index = 1 THEN prev
        ELSE SortByZ([sorted EXCEPT ![index].zIndex = sorted[targetIndex].zIndex])

\* the updater of moveLayer
moveLayer(prev, id, direction) ==
    LET sorted == SortByZ(prev)
        index == FindIndex(sorted, id)
        targetIndex == IF direction = "up" THEN index + 1 ELSE index - 1
    IN  IF index = 0 THEN prev
        ELSE IF direction = "up" /\ index = Len(sorted) THEN prev
        ELSE IF direction = "down" /\ index = 1 THEN prev
        ELSE SortByZ([sorted EXCEPT ![index].zIndex = sorted[targetIndex].zIndex,
                                    ![targetIndex].zIndex = sorted[index].zIndex])

\* what the updater of moveLayer leaves in prev: sorted is a new array of the same
\* layer objects, so sorted[index].zIndex = ... and sorted[targetIndex].zIndex = ...
\* write into the objects that prev holds (pos is the place of an object in prev)
moveLayerWrites(prev, id, direction) ==
    LET tagged == [i \in 1..Len(prev) |->
                      [f \in DOMAIN prev[i] \cup {"pos"} |->
                          IF f = "pos" THEN i ELSE prev[i][f]]]
        sorted == SortByZ(tagged)
        index == FindIndex(sorted, id)
        targetIndex == IF direction = "up" THEN index + 1 ELSE index - 1
    IN  IF index = 0 THEN prev
        ELSE IF direction = "up" /\ index = Len(sorted) THEN prev
        ELSE IF direction = "down" /\ index = 1 THEN prev
        ELSE [i \in 1..Len(prev) |->
                 IF i = sorted[index].pos
                 THEN [prev[i] EXCEPT !.zIndex = sorted[targetIndex].zIndex]
                 ELSE IF i = sorted[targetIndex].pos
                 THEN [prev[i] EXCEPT !.zIndex = sorted[index].zIndex]
                 ELSE prev[i]]

(* ----------------------------- geometry ------------------------------- *)

Abs(n) == IF n < 0 THEN 0 - n ELSE n

Max(a, b) == IF a >= b THEN a ELSE b

Min(a, b) == IF a <= b THEN a ELSE b

\* Math.atan2(dy, dx) * (180 / Math.PI), to the nearest multiple of 45 degrees,
\* in (-180, 180]; tan 22.5 is taken as 5/12 and tan 67.5 as 12/5
Atan2Deg(dy, dx) ==
    IF dx = 0 /\ dy = 0 THEN 0
    ELSE LET base == IF 12 * Abs(dy) < 5 * Abs(dx) THEN 0
                     ELSE IF 12 * Abs(dx) < 5 * Abs(dy) THEN 90
                     ELSE 45
         IN  IF dx >= 0 /\ dy >= 0 THEN base
             ELSE IF dx < 0 /\ dy >= 0 THEN 180 - base
             ELSE IF dx < 0 THEN base - 180
             ELSE 0 - base

\* the largest r in lo..hi with r * r <= n (bisection)
RECURSIVE SqrtBetween(_, _, _)
SqrtBetween(lo, hi, n) ==
    IF lo = hi THEN lo
    ELSE LET mid == (lo + hi + 1) \div 2
         IN  IF mid * mid <= n THEN SqrtBetween(mid, hi, n) ELSE SqrtBetween(lo, mid - 1, n)

\* Math.hypot(dx, dy) on tenths of a pixel, rounded down to a tenth; beyond
\* 2000 px the distance is taken on whole pixels
Hypot(dx, dy) ==
    IF Abs(dx) + Abs(dy) <= 20000
    THEN SqrtBetween(0, Abs(dx) + Abs(dy), dx * dx + dy * dy)
    ELSE LET px == dx \div 10
             py == dy \div 10
         IN  10 * SqrtBetween(0, Abs(px) + Abs(py), px * px + py * py)

\* the layer's centre in screen coordinates, in tenths of a pixel
\* (handleTransformStart): (layer.x + layer.width / 2) * viewport.scale + viewport.x
ScreenCenter(layer, vp) ==
    [x |-> ((10 * layer.x + 5 * layer.width) * vp.scale) \div 1000 + 10 * vp.x,
     y |-> ((10 * layer.y + 5 * layer.height) * vp.scale) \div 1000 + 10 * vp.y]

(* ------------------------------ helpers ------------------------------- *)

getSelectedLayerIndex == FindIndex(layers, selectedLayerId)

Op(name) == name

(* ------------------------- initial state ------------------------------ *)

Init ==
    /\ layers = <<>>
    /\ selectedLayerId = NoSelection
    /\ viewport = [x |-> 0, y |-> 0, scale |-> 1000]
    /\ aiLoading = FALSE
    /\ dragStartRef = NULL
    /\ initialLayerStateRef = NULL
    /\ isDraggingLayerRef = FALSE
    /\ transformRef = NULL
    /\ now = 0
    /\ addReqs = {}
    /\ decodes = {}
    /\ bgReq = NULL
    /\ lastOp = Op("init")
    /\ events = 0
    /\ gesture = Idle
    /\ maskJob = NULL
    /\ isExporting = FALSE
    /\ exportJob = NULL

(* --------------------- uploads and AI generations --------------------- *)

\* handleFileSelect: the reader's onload is a closure over this render's layers and viewport
FileSelect ==
    /\ Cardinality(addReqs) < MaxPending
    /\ addReqs' = addReqs \cup {[n |-> Len(layers), vp |-> viewport, ai |-> FALSE]}
    /\ lastOp' = Op("fileSelect")
    /\ UNCHANGED <<layers, selectedLayerId, viewport, aiLoading, gestureVars, now, decodes, bgReq>>

\* handleAIGenerate up to its await (the Generate button is disabled while isLoading)
AIGenerateStart ==
    /\ ~aiLoading
    /\ Cardinality(addReqs) < MaxPending
    /\ aiLoading' = TRUE
    /\ addReqs' = addReqs \cup {[n |-> Len(layers), vp |-> viewport, ai |-> TRUE]}
    /\ lastOp' = Op("aiGenerate")
    /\ UNCHANGED <<layers, selectedLayerId, viewport, gestureVars, now, decodes, bgReq>>

\* addLayer, called by reader.onload or after the awaited generation: r is the
\* closure, s the image delivered, t the reading of Date.now()
AddLayerDone(r, s, t) ==
    /\ r \in addReqs
    /\ t >= now
    /\ now' = t
    /\ layers' = Append(layers, NewLayer(DateNowToString(t), Src(s), r.n, r.vp))
    /\ selectedLayerId' = DateNowToString(t)
    /\ decodes' = decodes \cup {[id |-> DateNowToString(t), orphan |-> FALSE]}
    /\ addReqs' = addReqs \ {r}
    /\ aiLoading' = IF r.ai THEN FALSE ELSE aiLoading
    /\ lastOp' = Op("addLayer")
    /\ UNCHANGED <<viewport, gestureVars, bgReq>>

\* handleAIGenerate: the service throws (catch and finally)
AIGenerateFail(r) ==
    /\ r \in addReqs
    /\ r.ai
    /\ addReqs' = addReqs \ {r}
    /\ aiLoading' = FALSE
    /\ lastOp' = Op("aiGenerateFail")
    /\ UNCHANGED <<layers, selectedLayerId, viewport, gestureVars, now, decodes, bgReq>>

\* img.onload of addLayer
DecodeDone(d, ratio) ==
    /\ d \in decodes
    /\ decodes' = decodes \ {d}
    /\ layers' = updateLayer(layers, d.id, [width |-> INITIAL_LAYER_WIDTH,
                                            height |-> INITIAL_LAYER_WIDTH \div ratio])
    /\ lastOp' = Op("decodeDone")
    /\ UNCHANGED <<selectedLayerId, viewport, aiLoading, gestureVars, now, addReqs, bgReq>>

(* --------------------------- layers panel ----------------------------- *)

\* the row's onClick
SelectLayer(i) ==
    /\ i \in 1..Len(layers)
    /\ selectedLayerId' = layers[i].id
    /\ lastOp' = Op("select")
    /\ UNCHANGED <<layers, viewport, gestureVars, asyncVars>>

\* the chevron buttons' onClick
MoveLayerClick(i, direction) ==
    /\ i \in 1..Len(layers)
    /\ layers' = moveLayer(layers, layers[i].id, direction)
    /\ lastOp' = Op("moveLayer")
    /\ UNCHANGED <<selectedLayerId, viewport, gestureVars, asyncVars>>

\* history: the operations in flight that target id lose their layer
Orphan(pending, id) ==
    {IF p.id = id THEN [p EXCEPT !.orphan = TRUE] ELSE p : p \in pending}

\* a faulty delete that forgets to clear the selection (C11 must tell it from DeleteLayer)
DeleteLayer_keepsSelection(i) ==
    /\ i \in 1..Len(layers)
    /\ layers' = RemoveId(layers, layers[i].id)
    /\ decodes' = Orphan(decodes, layers[i].id)
    /\ bgReq' = IF bgReq # NULL /\ bgReq.id = layers[i].id
                THEN [bgReq EXCEPT !.orphan = TRUE] ELSE bgReq
    /\ lastOp' = Op("delete")
    /\ UNCHANGED <<selectedLayerId, viewport, gestureVars, now, addReqs, aiLoading>>

\* the trash button's onClick
DeleteLayer(i) ==
    /\ i \in 1..Len(layers)
    /\ layers' = RemoveId(layers, layers[i].id)
    /\ selectedLayerId' = IF selectedLayerId = layers[i].id THEN NoSelection ELSE selectedLayerId
    /\ decodes' = Orphan(decodes, layers[i].id)
    /\ bgReq' = IF bgReq # NULL /\ bgReq.id = layers[i].id
                THEN [bgReq EXCEPT !.orphan = TRUE] ELSE bgReq
    /\ lastOp' = Op("delete")
    /\ UNCHANGED <<viewport, gestureVars, now, addReqs, aiLoading>>

\* the lock button's onClick
ToggleLock(i) ==
    /\ i \in 1..Len(layers)
    /\ layers' = updateLayer(layers, layers[i].id, [isLocked |-> ~layers[i].isLocked])
    /\ lastOp' = Op("toggleLock")
    /\ UNCHANGED <<selectedLayerId, viewport, gestureVars, asyncVars>>

\* the eye button's onClick
ToggleVisible(i) ==
    /\ i \in 1..Len(layers)
    /\ layers' = updateLayer(layers, layers[i].id, [isVisible |-> ~layers[i].isVisible])
    /\ lastOp' = Op("toggleVisible")
    /\ UNCHANGED <<selectedLayerId, viewport, gestureVars, asyncVars>>

\* the Opacity slider's onChange, shown for activeLayer (the selected layer);
\* v is in hundredths
SetOpacity(v) ==
    /\ getSelectedLayerIndex # 0
    /\ layers' = updateLayer(layers, layers[getSelectedLayerIndex].id, [opacity |-> v])
    /\ lastOp' = Op("setOpacity")
    /\ UNCHANGED <<selectedLayerId, viewport, gestureVars, asyncVars>>

\* a blend mode button's onClick, shown for activeLayer
SetBlendMode(mode) ==
    /\ getSelectedLayerIndex # 0
    /\ layers' = updateLayer(layers, layers[getSelectedLayerIndex].id, [blendMode |-> mode])
    /\ lastOp' = Op("setBlendMode")
    /\ UNCHANGED <<selectedLayerId, viewport, gestureVars, asyncVars>>

(* ------------------------ background removal -------------------------- *)

\* handleRemoveBackground up to its await; the restore branch runs to the end
RemoveBackground ==
    /\ ~aiLoading
    /\ selectedLayerId # NoSelection
    /\ getSelectedLayerIndex # 0
    /\ LET layer == layers[getSelectedLayerIndex]
       IN  IF layer.isMasked
           THEN /\ layers' = updateLayer(layers, layer.id,
                                 [src |-> layer.originalSrc, isMasked |-> FALSE])
                /\ UNCHANGED <<bgReq, aiLoading>>
           ELSE /\ bgReq' = [id |-> layer.id, src |-> layer.src,
                             originalSrc |-> layer.originalSrc, orphan |-> FALSE]
                /\ aiLoading' = TRUE
                /\ UNCHANGED layers
    /\ lastOp' = Op("removeBackground")
    /\ UNCHANGED <<selectedLayerId, viewport, gestureVars, now, addReqs, decodes>>

\* removeBackground resolved: the update after the await, then finally
RemoveBackgroundDone ==
    /\ bgReq # NULL
    /\ layers' = updateLayer(layers, bgReq.id,
                     [src |-> applyMaskToImage(bgReq.src),
                      isMasked |-> TRUE,
                      originalSrc |-> bgReq.originalSrc])
    /\ bgReq' = NULL
    /\ aiLoading' = FALSE
    /\ lastOp' = Op("removeBackgroundDone")
    /\ UNCHANGED <<selectedLayerId, viewport, gestureVars, now, addReqs, decodes>>

\* a faulty failure path that leaves the loading flag set (C28 must tell it from
\* RemoveBackgroundFail)
RemoveBackgroundFail_keepsLoading ==
    /\ bgReq # NULL
    /\ bgReq' = NULL
    /\ lastOp' = Op("removeBackgroundFail")
    /\ UNCHANGED <<layers, selectedLayerId, viewport, gestureVars, now, addReqs, decodes,
                   aiLoading>>

\* removeBackground rejected (no mask, decode failure, no drawing surface): catch, finally
RemoveBackgroundFail ==
    /\ bgReq # NULL
    /\ bgReq' = NULL
    /\ aiLoading' = FALSE
    /\ lastOp' = Op("removeBackgroundFail")
    /\ UNCHANGED <<layers, selectedLayerId, viewport, gestureVars, now, addReqs, decodes>>


(* -------------------------- pointer gestures -------------------------- *)

\* handlePointerDown(e, layer.id): the pointer goes down on the body of the rendered layer i
PointerDownLayer(i, c) ==
    /\ i \in 1..Len(layers)
    /\ layers[i].isVisible
    /\ LET layerId == layers[i].id
           k == FindIndex(layers, layerId)
       IN  IF k # 0 /\ ~layers[k].isLocked
           THEN /\ selectedLayerId' = layerId
                /\ isDraggingLayerRef' = TRUE
                /\ dragStartRef' = c
                /\ initialLayerStateRef' = [x |-> layers[k].x, y |-> layers[k].y]
           ELSE UNCHANGED <<selectedLayerId, isDraggingLayerRef, dragStartRef,
                            initialLayerStateRef>>
    /\ gesture' = IF layers[i].isLocked THEN gesture
                  ELSE [kind |-> "drag", id |-> layers[i].id]
    /\ lastOp' = IF layers[i].isLocked THEN Op("pointerDownLocked") ELSE Op("pointerDownLayer")
    /\ UNCHANGED <<layers, viewport, transformRef, asyncVars>>

\* handlePointerDown(e): the pointer goes down on the empty canvas
PointerDownCanvas(c) ==
    /\ isDraggingLayerRef' = FALSE
    /\ dragStartRef' = c
    /\ initialLayerStateRef' = [x |-> viewport.x, y |-> viewport.y]
    /\ gesture' = [kind |-> "pan", id |-> NoSelection]
    /\ lastOp' = Op("pointerDownCanvas")
    /\ UNCHANGED <<layers, selectedLayerId, viewport, transformRef, asyncVars>>

\* handleTransformStart: the pointer goes down on a rotate or scale handle of layer i,
\* which is rendered only for the selected, unlocked, visible layer
handleTransformStart(i, type, c) ==
    /\ i \in 1..Len(layers)
    /\ layers[i].isVisible
    /\ selectedLayerId = layers[i].id
    /\ ~layers[i].isLocked
    /\ LET k == getSelectedLayerIndex
           center == ScreenCenter(layers[k], viewport)
       IN  IF k = 0 THEN UNCHANGED transformRef
           ELSE IF type = "rotate"
           THEN transformRef' =
                    [type |-> "rotate",
                     startVal |-> layers[k].rotation,
                     startCursor |-> Atan2Deg(10 * c.y - center.y, 10 * c.x - center.x),
                     centerX |-> center.x,
                     centerY |-> center.y]
           ELSE transformRef' =
                    [type |-> "scale",
                     startVal |-> layers[k].scale,
                     startCursor |-> Hypot(10 * c.x - center.x, 10 * c.y - center.y),
                     centerX |-> center.x,
                     centerY |-> center.y]
    /\ gesture' = [kind |-> type, id |-> layers[i].id]
    /\ lastOp' = Op("transformStart")
    /\ UNCHANGED <<layers, selectedLayerId, viewport, dragStartRef, initialLayerStateRef,
                   isDraggingLayerRef, asyncVars>>

\* a faulty transform branch without the 0.1 floor (C14 must tell it from TransformMove)
TransformMove_noFloor(ref, c) ==
    IF ref.type = "rotate"
    THEN [rotation |-> ref.startVal
                       + (Atan2Deg(10 * c.y - ref.centerY, 10 * c.x - ref.centerX)
                          - ref.startCursor)]
    ELSE LET currentDist == Hypot(10 * c.x - ref.centerX, 10 * c.y - ref.centerY)
             startDist == IF ref.startCursor = 0 THEN 10 ELSE ref.startCursor
         IN  [scale |-> (ref.startVal * currentDist) \div startDist]

\* the layer update of handlePointerMove's transform branch; the transform anchor
\* holds its centre and its start distance in tenths of a pixel, so
\* startCursorDist || 1 replaces a distance of 0 by 10
TransformMove(ref, c) ==
    IF ref.type = "rotate"
    THEN [rotation |-> ref.startVal
                       + (Atan2Deg(10 * c.y - ref.centerY, 10 * c.x - ref.centerX)
                          - ref.startCursor)]
    ELSE LET currentDist == Hypot(10 * c.x - ref.centerX, 10 * c.y - ref.centerY)
             startDist == IF ref.startCursor = 0 THEN 10 ELSE ref.startCursor
         IN  [scale |-> Max(1, (ref.startVal * currentDist) \div startDist)]

handlePointerMove(c) ==
    /\ IF transformRef # NULL /\ selectedLayerId # NoSelection
       THEN /\ layers' = updateLayer(layers, selectedLayerId, TransformMove(transformRef, c))
            /\ UNCHANGED viewport
       ELSE IF dragStartRef = NULL \/ initialLayerStateRef = NULL
       THEN UNCHANGED <<layers, viewport>>
       ELSE IF isDraggingLayerRef /\ selectedLayerId # NoSelection
       THEN /\ LET k == getSelectedLayerIndex
               IN  IF k # 0 /\ ~layers[k].isLocked
                   THEN layers' = updateLayer(layers, selectedLayerId,
                            [x |-> initialLayerStateRef.x
                                   + ((c.x - dragStartRef.x) * 1000) \div viewport.scale,
                             y |-> initialLayerStateRef.y
                                   + ((c.y - dragStartRef.y) * 1000) \div viewport.scale])
                   ELSE UNCHANGED layers
            /\ UNCHANGED viewport
       ELSE IF ~isDraggingLayerRef
       THEN /\ viewport' = [viewport EXCEPT !.x = initialLayerStateRef.x + (c.x - dragStartRef.x),
                                            !.y = initialLayerStateRef.y + (c.y - dragStartRef.y)]
            /\ UNCHANGED layers
       ELSE UNCHANGED <<layers, viewport>>
    /\ lastOp' = Op("pointerMove")
    /\ UNCHANGED <<selectedLayerId, gestureVars, asyncVars>>

\* a faulty handlePointerUp that forgets the transform anchor (C7 must tell it
\* from handlePointerUp)
handlePointerUp_keepsTransform(event) ==
    /\ dragStartRef' = NULL
    /\ initialLayerStateRef' = NULL
    /\ isDraggingLayerRef' = FALSE
    /\ gesture' = Idle
    /\ lastOp' = Op(event)
    /\ UNCHANGED <<layers, selectedLayerId, viewport, transformRef, asyncVars>>

\* onPointerUp and onPointerLeave of the canvas
handlePointerUp(event) ==
    /\ dragStartRef' = NULL
    /\ initialLayerStateRef' = NULL
    /\ isDraggingLayerRef' = FALSE
    /\ transformRef' = NULL
    /\ gesture' = Idle
    /\ lastOp' = Op(event)
    /\ UNCHANGED <<layers, selectedLayerId, viewport, asyncVars>>

(* ------------------------------- zoom --------------------------------- *)

\* a faulty handleWheel without the clamp (C12 must tell it from handleWheel)
handleWheel_noClamp(deltaY, zoomKey) ==
    /\ IF zoomKey
       THEN viewport' = [viewport EXCEPT !.scale = @ - deltaY]
       ELSE UNCHANGED viewport
    /\ lastOp' = Op("wheel")
    /\ UNCHANGED <<layers, selectedLayerId, gestureVars, asyncVars>>

\* a faulty handleWheel that zooms whatever the modifier keys (C13 must tell it
\* from handleWheel)
handleWheel_ignoresModifier(deltaY, zoomKey) ==
    /\ viewport' = [viewport EXCEPT !.scale = Min(Max(@ - deltaY, MIN_ZOOM), MAX_ZOOM)]
    /\ lastOp' = Op("wheel")
    /\ UNCHANGED <<layers, selectedLayerId, gestureVars, asyncVars>>

\* handleWheel: zoomKey is e.ctrlKey || e.metaKey; scaleAmount = -deltaY * 0.001 is
\* -deltaY thousandths
handleWheel(deltaY, zoomKey) ==
    /\ IF zoomKey
       THEN viewport' = [viewport EXCEPT !.scale = Min(Max(@ - deltaY, MIN_ZOOM), MAX_ZOOM)]
       ELSE UNCHANGED viewport
    /\ lastOp' = Op("wheel")
    /\ UNCHANGED <<layers, selectedLayerId, gestureVars, asyncVars>>

(* -------------------------- mask compositor --------------------------- *)

\* an image: its pixels row by row, each with channels r, g, b, a in 0..255
Image(w, h, pixels) == [width |-> w, height |-> h, pixels |-> pixels]

\* what a 2d canvas holds of a pixel drawn or put on it when it is cleared
\* (drawImage then getImageData, putImageData then toDataURL). A canvas that stores
\* premultiplied colour keeps round(c * a / 255) and gives back round(that * 255 / a),
\* and nothing of the colour when a = 0; a canvas that stores straight colour keeps
\* the pixel. Which one it is is the platform's choice.
ThroughCanvas(p, premultiplied) ==
    IF ~premultiplied THEN p
    ELSE IF p.a = 0 THEN [r |-> 0, g |-> 0, b |-> 0, a |-> 0]
    ELSE LET back(c) == Min(255, ((((c * p.a + 127) \div 255) * 255) + p.a \div 2) \div p.a)
         IN  [r |-> back(p.r), g |-> back(p.g), b |-> back(p.b), a |-> p.a]

\* mCtx.drawImage(mask, 0, 0, canvas.width, canvas.height): the mask stretched to
\* the original's size, pixel k of a row taken from the mask pixel under its left edge
Stretch(mask, w, h) ==
    [k \in 1..(w * h) |->
        LET col == (k - 1) % w
            row == (k - 1) \div w
            mcol == (col * mask.width) \div w
            mrow == (row * mask.height) \div h
        IN  mask.pixels[mrow * mask.width + mcol + 1]]

\* a faulty levels curve that rounds up (C19 must tell it from Levels)
Levels_roundsUp(maskVal) ==
    LET blackPoint == 50
        whitePoint == 200
    IN  IF maskVal <= blackPoint THEN 0
        ELSE IF maskVal >= whitePoint THEN 255
        ELSE ((maskVal - blackPoint) * 255 + (whitePoint - blackPoint) - 1)
                 \div (whitePoint - blackPoint)

\* the levels adjustment of the loop and Math.floor(alpha): the quotient
\* ((alpha - blackPoint) / (whitePoint - blackPoint)) * 255 is taken exactly; the
\* double arithmetic of the code gives the same floor for every maskVal in 51..199
Levels(maskVal) ==
    LET blackPoint == 50
        whitePoint == 200
    IN  IF maskVal <= blackPoint THEN 0
        ELSE IF maskVal >= whitePoint THEN 255
        ELSE ((maskVal - blackPoint) * 255) \div (whitePoint - blackPoint)

\* applyMaskToImage up to the end of the executor: both images are created and
\* their src assigned; premultiplied is the kind of canvas the platform provides.
\* In a job, original and mask are the decoded images (NULL until onload), errors
\* the images whose onerror fired, settled the state of the promise, awaited whether
\* removeBackground still awaits it; composites is history (runs of processComposite)
applyMaskStart(premultiplied) ==
    /\ IF maskJob = NULL THEN TRUE ELSE ~maskJob.awaited
    /\ maskJob' = [original |-> NULL, mask |-> NULL, premultiplied |-> premultiplied,
                   loadedCount |-> 0, errors |-> {}, settled |-> "pending",
                   awaited |-> TRUE, composites |-> 0, done |-> FALSE,
                   mData |-> <<>>, data |-> <<>>, output |-> Image(0, 0, <<>>)]
    /\ lastOp' = Op("applyMask")
    /\ UNCHANGED <<layers, selectedLayerId, viewport, gestureVars, asyncVars, events,
                   exportVars>>

\* processComposite: data is imgData.data after the loop, output the image that
\* canvas.toDataURL('image/png') encodes; without a 2d context it throws and the
\* catch rejects. resolve and reject act on a pending promise only.
processComposite(job, hasContext) ==
    LET w == job.original.width
        h == job.original.height
        premultiplied == job.premultiplied
        imgData == [k \in 1..(w * h) |->
                       ThroughCanvas(job.original.pixels[k], premultiplied)]
        stretched == Stretch(job.mask, w, h)
        mData == [k \in 1..(w * h) |-> ThroughCanvas(stretched[k], premultiplied)]
        data == [k \in 1..(w * h) |-> [imgData[k] EXCEPT !.a = Levels(mData[k].r)]]
    IN  IF ~hasContext
        THEN [job EXCEPT !.composites = @ + 1,
                         !.settled = IF @ = "pending" THEN "rejected" ELSE @]
        ELSE [job EXCEPT
                 !.composites = @ + 1,
                 !.settled = IF @ = "pending" THEN "resolved" ELSE @,
                 !.done = (job.settled = "pending"),
                 !.mData = mData,
                 !.data = data,
                 !.output = Image(w, h, [k \in 1..(w * h) |->
                                           ThroughCanvas(data[k], premultiplied)])]

\* checkLoad
checkLoad(job, hasContext) ==
    LET counted == [job EXCEPT !.loadedCount = @ + 1]
    IN  IF counted.loadedCount = 2 THEN processComposite(counted, hasContext) ELSE counted

\* original.onload: the decoded original
OriginalOnload(original, hasContext) ==
    /\ maskJob # NULL
    /\ maskJob.original = NULL
    /\ "original" \notin maskJob.errors
    /\ maskJob' = checkLoad([maskJob EXCEPT !.original = original], hasContext)
    /\ lastOp' = Op("originalOnload")
    /\ UNCHANGED <<layers, selectedLayerId, viewport, gestureVars, asyncVars, events,
                   exportVars>>

\* mask.onload: the decoded mask
MaskOnload(mask, hasContext) ==
    /\ maskJob # NULL
    /\ maskJob.mask = NULL
    /\ "mask" \notin maskJob.errors
    /\ maskJob' = checkLoad([maskJob EXCEPT !.mask = mask], hasContext)
    /\ lastOp' = Op("maskOnload")
    /\ UNCHANGED <<layers, selectedLayerId, viewport, gestureVars, asyncVars, events,
                   exportVars>>

\* a faulty onerror that does not reject (C27 must tell it from ImageOnerror)
ImageOnerror_ignored(which) ==
    /\ maskJob # NULL
    /\ which \notin maskJob.errors
    /\ which = "original" => maskJob.original = NULL
    /\ which = "mask" => maskJob.mask = NULL
    /\ maskJob' = [maskJob EXCEPT !.errors = @ \cup {which}]
    /\ lastOp' = Op("imageOnerror")
    /\ UNCHANGED <<layers, selectedLayerId, viewport, gestureVars, asyncVars, events,
                   exportVars>>

\* original.onerror or mask.onerror: reject
ImageOnerror(which) ==
    /\ maskJob # NULL
    /\ which \notin maskJob.errors
    /\ which = "original" => maskJob.original = NULL
    /\ which = "mask" => maskJob.mask = NULL
    /\ maskJob' = [maskJob EXCEPT !.errors = @ \cup {which},
                                  !.settled = IF @ = "pending" THEN "rejected" ELSE @]
    /\ lastOp' = Op("imageOnerror")
    /\ UNCHANGED <<layers, selectedLayerId, viewport, gestureVars, asyncVars, events,
                   exportVars>>

(* ------------------------------ export -------------------------------- *)
\* Export coordinates are in 20000ths of a pixel: a half pixel (width / 2) times a
\* scale in tenths times a cosine in thousandths.

\* Math.cos and Math.sin of rotation * (Math.PI / 180), in thousandths; rotations
\* are multiples of 45 degrees (Atan2Deg), and the rounding of the doubles (about
\* 1e-13 px on these sizes) is below what the bitmap size can show
CosDeg(rotation) ==
    LET d == rotation % 360
    IN  CASE d = 0 -> 1000 [] d = 45 -> 707 [] d = 90 -> 0 [] d = 135 -> 0 - 707
          [] d = 180 -> 0 - 1000 [] d = 225 -> 0 - 707 [] d = 270 -> 0 [] d = 315 -> 707

SinDeg(rotation) == CosDeg(rotation - 90)

SetMin(S) == CHOOSE m \in S : \A n \in S : m <= n
SetMax(S) == CHOOSE m \in S : \A n \in S : m >= n

\* a faulty filter that keeps hidden layers (C21 must tell it from FilterVisible)
FilterVisible_keepsAll(s) == s

\* filter(l => l.isVisible)
RECURSIVE FilterVisible(_)
FilterVisible(s) ==
    IF s = <<>> THEN <<>>
    ELSE IF Head(s).isVisible THEN <<Head(s)>> \o FilterVisible(Tail(s))
         ELSE FilterVisible(Tail(s))

\* the transformed corners of a layer: cx + (p.x * scale * cos - p.y * scale * sin)
\* and cy + (p.x * scale * sin + p.y * scale * cos) for the four corners p
Corners(layer) ==
    LET cx == (2 * layer.x + layer.width) * 10000
        cy == (2 * layer.y + layer.height) * 10000
        cos == CosDeg(layer.rotation)
        sin == SinDeg(layer.rotation)
    IN  {[x |-> cx + (px * layer.scale * cos - py * layer.scale * sin),
          y |-> cy + (px * layer.scale * sin + py * layer.scale * cos)] :
             px \in {0 - layer.width, layer.width}, py \in {0 - layer.height, layer.height}}

\* a faulty bounding box that takes the rotation into (-180, 180] by clamping
\* (C25 must tell it from ExportBounds)
ExportBounds_clampsRotation(visibleLayers) ==
    LET clamp(l) == [l EXCEPT !.rotation = Max(0 - 135, Min(180, @))]
        points == UNION {Corners(clamp(visibleLayers[k])) : k \in 1..Len(visibleLayers)}
        minX == SetMin({p.x : p \in points})
        maxX == SetMax({p.x : p \in points})
        minY == SetMin({p.y : p \in points})
        maxY == SetMax({p.y : p \in points})
    IN  [minX |-> minX, minY |-> minY,
         width |-> Abs(maxX - minX), height |-> Abs(maxY - minY)]

\* a faulty bounding box that counts every layer of the store (C24 must tell it
\* from ExportBounds)
ExportBounds_countsHidden(visibleLayers) ==
    LET points == UNION {Corners(layers[k]) : k \in 1..Len(layers)}
        minX == SetMin({p.x : p \in points})
        maxX == SetMax({p.x : p \in points})
        minY == SetMin({p.y : p \in points})
        maxY == SetMax({p.y : p \in points})
    IN  [minX |-> minX, minY |-> minY,
         width |-> Abs(maxX - minX), height |-> Abs(maxY - minY)]

\* step 1 of handleExport: the running minima and maxima, started at +-Infinity,
\* over the corners of every visible layer (there is at least one), then
\* Math.abs(maxX - minX) and Math.abs(maxY - minY)
ExportBounds(visibleLayers) ==
    LET points == UNION {Corners(visibleLayers[k]) : k \in 1..Len(visibleLayers)}
        minX == SetMin({p.x : p \in points})
        maxX == SetMax({p.x : p \in points})
        minY == SetMin({p.y : p \in points})
        maxY == SetMax({p.y : p \in points})
    IN  [minX |-> minX, minY |-> minY,
         width |-> Abs(maxX - minX), height |-> Abs(maxY - minY)]

\* canvas.width = width: the conversion to an unsigned long drops the fraction
CanvasSize(extent) == extent \div 20000

\* what img.onload draws: the context is translated by (-minX, -minY), then to the
\* layer's centre, rotated, scaled, and the image drawn centred with the layer's
\* opacity and blend mode
DrawOp(layer, box) ==
    [id |-> layer.id,
     src |-> layer.src,
     originX |-> 0 - box.minX,
     originY |-> 0 - box.minY,
     cx |-> (2 * layer.x + layer.width) * 10000,
     cy |-> (2 * layer.y + layer.height) * 10000,
     rotation |-> layer.rotation,
     scale |-> layer.scale,
     opacity |-> layer.opacity,
     blendMode |-> layer.blendMode,
     width |-> layer.width,
     height |-> layer.height]

\* the job of a run that threw before drawing. In a job, sorted is sortedLayers,
\* pos the place in it of the layer whose image is awaited, decoded the places
\* whose img.src was assigned, drawn the draws made on the canvas; drawnAt and
\* skipped are history (the places drawn, and those whose image failed)
ExportFailed(snapshot, error) ==
    [snapshot |-> snapshot, status |-> "failed", error |-> error, sorted |-> <<>>,
     box |-> NULL, pos |-> 0, decoded |-> <<>>, drawn |-> <<>>, drawnAt |-> <<>>,
     skipped |-> <<>>, output |-> NULL]

\* handleExport up to its first await (the Export button is disabled while
\* isExporting or when the store is empty); hasContext is whether getContext('2d')
\* returns a context. A throw runs catch and finally at once.
handleExport(hasContext) ==
    /\ ~isExporting
    /\ Len(layers) > 0
    /\ LET visibleLayers == FilterVisible(layers)
       IN  IF visibleLayers = <<>>
           THEN /\ exportJob' = ExportFailed(layers, "No visible layers")
                /\ isExporting' = FALSE
           ELSE IF ~hasContext
           THEN /\ exportJob' = ExportFailed(layers, "Could not get canvas context")
                /\ isExporting' = FALSE
           ELSE /\ exportJob' = [snapshot |-> layers,
                                 status |-> "decoding",
                                 error |-> "",
                                 sorted |-> SortByZ(visibleLayers),
                                 box |-> ExportBounds(visibleLayers),
                                 pos |-> 1,
                                 decoded |-> <<1>>,
                                 drawn |-> <<>>,
                                 drawnAt |-> <<>>,
                                 skipped |-> <<>>,
                                 output |-> NULL]
                /\ isExporting' = TRUE
    /\ lastOp' = Op("export")
    /\ UNCHANGED <<layers, selectedLayerId, viewport, gestureVars, asyncVars, events, maskJob>>

\* a faulty loop whose download is not followed by finally, so that isExporting
\* stays set (C34 must tell it from ExportContinue)
ExportContinue_staysExporting(job, t) ==
    IF job.pos < Len(job.sorted)
    THEN /\ exportJob' = [job EXCEPT !.pos = @ + 1, !.decoded = Append(@, job.pos + 1)]
         /\ UNCHANGED <<isExporting, now>>
    ELSE /\ exportJob' = [job EXCEPT !.pos = 0,
                                     !.status = "delivered",
                                     !.output = [width |-> CanvasSize(job.box.width),
                                                 height |-> CanvasSize(job.box.height),
                                                 draws |-> job.drawn]]
         /\ UNCHANGED isExporting
         /\ t >= now
         /\ now' = t

\* the loop after the awaited promise of layer pos resolved: the next decode
\* starts, or the bitmap is encoded and downloaded (Date.now() is read as t for the
\* file name) and finally clears isExporting
ExportContinue(job, t) ==
    IF job.pos < Len(job.sorted)
    THEN /\ exportJob' = [job EXCEPT !.pos = @ + 1, !.decoded = Append(@, job.pos + 1)]
         /\ UNCHANGED <<isExporting, now>>
    ELSE /\ exportJob' = [job EXCEPT !.pos = 0,
                                     !.status = "delivered",
                                     !.output = [width |-> CanvasSize(job.box.width),
                                                 height |-> CanvasSize(job.box.height),
                                                 draws |-> job.drawn]]
         /\ isExporting' = FALSE
         /\ t >= now
         /\ now' = t

\* a faulty img.onerror that rejects, so that the export aborts in catch
\* (C23 must tell it from ExportImageError)
ExportImageError_aborts(t) ==
    /\ exportJob # NULL
    /\ exportJob.status = "decoding"
    /\ exportJob' = [exportJob EXCEPT !.pos = 0, !.status = "failed",
                                      !.error = "image failed to load"]
    /\ isExporting' = FALSE
    /\ lastOp' = Op("exportImageError")
    /\ UNCHANGED <<layers, selectedLayerId, viewport, gestureVars, aiLoading, addReqs,
                   decodes, bgReq, events, maskJob, now>>

\* a faulty img.onload that draws the layer of the current store at the same
\* place instead of the captured one (C30 must tell it from ExportImageLoaded)
ExportImageLoaded_readsStore(t) ==
    /\ exportJob # NULL
    /\ exportJob.status = "decoding"
    /\ LET k == FindIndex(layers, exportJob.sorted[exportJob.pos].id)
           layer == IF k # 0 THEN layers[k] ELSE exportJob.sorted[exportJob.pos]
       IN  ExportContinue([exportJob EXCEPT !.drawn = Append(@, DrawOp(layer, exportJob.box)),
                                            !.drawnAt = Append(@, exportJob.pos)], t)
    /\ lastOp' = Op("exportImageLoaded")
    /\ UNCHANGED <<layers, selectedLayerId, viewport, gestureVars, aiLoading, addReqs,
                   decodes, bgReq, events, maskJob>>

\* img.onload of the layer being awaited: it is drawn, the promise resolves
ExportImageLoaded(t) ==
    /\ exportJob # NULL
    /\ exportJob.status = "decoding"
    /\ LET layer == exportJob.sorted[exportJob.pos]
       IN  ExportContinue([exportJob EXCEPT !.drawn = Append(@, DrawOp(layer, exportJob.box)),
                                            !.drawnAt = Append(@, exportJob.pos)], t)
    /\ lastOp' = Op("exportImageLoaded")
    /\ UNCHANGED <<layers, selectedLayerId, viewport, gestureVars, aiLoading, addReqs,
                   decodes, bgReq, events, maskJob>>

\* img.onerror of the layer being awaited: the promise resolves, nothing is drawn
ExportImageError(t) ==
    /\ exportJob # NULL
    /\ exportJob.status = "decoding"
    /\ ExportContinue([exportJob EXCEPT !.skipped = Append(@, exportJob.pos)], t)
    /\ lastOp' = Op("exportImageError")
    /\ UNCHANGED <<layers, selectedLayerId, viewport, gestureVars, aiLoading, addReqs,
                   decodes, bgReq, events, maskJob>>

(* --------------------------- specification ---------------------------- *)

\* an event of SpecGesture is counted; the other specifications do not count
Counted == events < MaxEvents /\ events' = events + 1 /\ UNCHANGED <<maskJob, exportVars>>
Uncounted == UNCHANGED <<events, maskJob, exportVars>>

Next ==
    \/ FileSelect /\ Uncounted
    \/ AIGenerateStart /\ Uncounted
    \/ \E r \in addReqs, s \in Sources, t \in 0..MaxClock :
           Len(layers) < MaxLayers /\ AddLayerDone(r, s, t) /\ Uncounted
    \/ \E r \in addReqs : AIGenerateFail(r) /\ Uncounted
    \/ \E d \in decodes, ratio \in Ratios : DecodeDone(d, ratio) /\ Uncounted
    \/ \E i \in 1..Len(layers) : SelectLayer(i) /\ Uncounted
    \/ \E i \in 1..Len(layers) : DeleteLayer(i) /\ Uncounted
    \/ RemoveBackground /\ Uncounted
    \/ RemoveBackgroundDone /\ Uncounted
    \/ RemoveBackgroundFail /\ Uncounted

Spec == Init /\ [][Next]_vars

\* the z-order of the store under add, remove and moveZ
NextOrder ==
    \/ FileSelect /\ Uncounted
    \/ \E r \in addReqs, t \in 0..MaxOrderClock :
           Len(layers) < MaxOrderLayers /\ AddLayerDone(r, 1, t) /\ Uncounted
    \/ \E i \in 1..Len(layers), d \in {"up", "down"} : MoveLayerClick(i, d) /\ Uncounted
    \/ \E i \in 1..Len(layers) : DeleteLayer(i) /\ Uncounted

SpecOrder == Init /\ [][NextOrder]_vars

\* e.deltaY of the wheel events: a step down to MIN_ZOOM, a step up to MAX_ZOOM
WheelDeltas == {1000, 0 - 4500}

\* e.clientX, e.clientY
Cursors == {[x |-> 400, y |-> 300], [x |-> 300, y |-> 500]}

\* the gesture machine, with the panel operations that can interleave with it
NextGesture ==
    \/ FileSelect /\ Counted
    \/ \E r \in addReqs, t \in 0..MaxClock :
           Len(layers) < MaxLayers /\ AddLayerDone(r, 1, t) /\ Counted
    \/ \E i \in 1..Len(layers) : SelectLayer(i) /\ Counted
    \/ \E i \in 1..Len(layers) : ToggleLock(i) /\ Counted
    \/ \E i \in 1..Len(layers) : DeleteLayer(i) /\ Counted
    \/ \E i \in 1..Len(layers), d \in {"up", "down"} : MoveLayerClick(i, d) /\ Counted
    \/ \E i \in 1..Len(layers), c \in Cursors : PointerDownLayer(i, c) /\ Counted
    \/ \E c \in Cursors : PointerDownCanvas(c) /\ Counted
    \/ \E i \in 1..Len(layers), type \in {"rotate", "scale"}, c \in Cursors :
           handleTransformStart(i, type, c) /\ Counted
    \/ \E c \in Cursors : handlePointerMove(c) /\ Counted
    \/ \E event \in {"pointerUp", "pointerLeave"} : handlePointerUp(event) /\ Counted

SpecGesture == Init /\ [][NextGesture]_vars

\* the wheel zoom with the pan, drag and transform gestures
NextZoom ==
    \/ FileSelect /\ Counted
    \/ \E r \in addReqs, t \in 0..MaxClock :
           Len(layers) < MaxLayers /\ AddLayerDone(r, 1, t) /\ Counted
    \/ \E deltaY \in WheelDeltas, zoomKey \in BOOLEAN : handleWheel(deltaY, zoomKey) /\ Counted
    \/ \E i \in 1..Len(layers), c \in Cursors : PointerDownLayer(i, c) /\ Counted
    \/ \E c \in Cursors : PointerDownCanvas(c) /\ Counted
    \/ \E i \in 1..Len(layers), type \in {"rotate", "scale"}, c \in Cursors :
           handleTransformStart(i, type, c) /\ Counted
    \/ \E c \in Cursors : handlePointerMove(c) /\ Counted
    \/ \E event \in {"pointerUp", "pointerLeave"} : handlePointerUp(event) /\ Counted

SpecZoom == Init /\ [][NextZoom]_vars

\* e.clientX, e.clientY for the transform arithmetic: the new layer's centre, points
\* right of, below and left of it, and a point just above the leftward axis
TransformCursors == {[x |-> 300, y |-> 300], [x |-> 400, y |-> 300], [x |-> 300, y |-> 500],
                     [x |-> 200, y |-> 300], [x |-> 200, y |-> 280]}

\* e.deltaY of a fine zoom step
FineDeltas == {1}

\* the rotate and scale gestures on one layer, with fine zoom steps
NextTransform ==
    \/ FileSelect /\ Counted
    \/ \E r \in addReqs, t \in 0..MaxClock :
           Len(layers) < MaxTransformLayers /\ AddLayerDone(r, 1, t) /\ Counted
    \/ \E deltaY \in FineDeltas : handleWheel(deltaY, TRUE) /\ Counted
    \/ \E i \in 1..Len(layers), type \in {"rotate", "scale"}, c \in TransformCursors :
           handleTransformStart(i, type, c) /\ Counted
    \/ \E c \in TransformCursors : handlePointerMove(c) /\ Counted
    \/ \E event \in {"pointerUp", "pointerLeave"} : handlePointerUp(event) /\ Counted

SpecTransform == Init /\ [][NextTransform]_vars

\* pixels of an original image: opaque, half transparent, transparent
OriginalPixels == {[r |-> 200, g |-> 100, b |-> 50, a |-> 255],
                   [r |-> 200, g |-> 100, b |-> 50, a |-> 128],
                   [r |-> 10, g |-> 20, b |-> 30, a |-> 0]}

\* the original images: one pixel, or two pixels in a row
Originals ==
    {Image(1, 1, <<p>>) : p \in OriginalPixels}
        \cup {Image(2, 1, <<[r |-> 200, g |-> 100, b |-> 50, a |-> 255],
                             [r |-> 10, g |-> 20, b |-> 30, a |-> 255]>>)}

\* the green, blue and alpha of a mask pixel: grey and opaque, coloured, transparent
MaskRest == {"grey", "red", "clear"}

MaskPixel(m, rest) ==
    [r |-> m,
     g |-> IF rest = "grey" THEN m ELSE 0,
     b |-> IF rest = "grey" THEN m ELSE 0,
     a |-> IF rest = "clear" THEN 0 ELSE 255]

\* the mask images: one pixel of every red value, or two pixels in a row
Masks ==
    {Image(1, 1, <<MaskPixel(m, rest)>>) : m \in 0..255, rest \in MaskRest}
        \cup {Image(2, 1, <<MaskPixel(m, rest), MaskPixel(255 - m, rest)>>) :
                  m \in 0..255, rest \in MaskRest}

\* the mask compositor on decoded images
NextMask ==
    \/ \E premultiplied \in BOOLEAN : applyMaskStart(premultiplied)
    \/ \E original \in Originals : OriginalOnload(original, TRUE)
    \/ \E mask \in Masks : MaskOnload(mask, TRUE)
    \/ \E which \in {"original", "mask"} : ImageOnerror(which)

SpecMask == Init /\ [][NextMask]_vars

\* export runs over a store under add, remove, moveZ and the visibility toggle
NextExport ==
    \/ FileSelect /\ Uncounted
    \/ \E r \in addReqs, t \in 0..MaxClock :
           Len(layers) < MaxExportLayers /\ AddLayerDone(r, 1, t) /\ Uncounted
    \/ \E i \in 1..Len(layers) : events < MaxExportEvents /\ ToggleVisible(i) /\ Counted
    \/ \E i \in 1..Len(layers), d \in {"up", "down"} :
           events < MaxExportEvents /\ MoveLayerClick(i, d) /\ Counted
    \/ \E i \in 1..Len(layers) : events < MaxExportEvents /\ DeleteLayer(i) /\ Counted
    \/ \E hasContext \in BOOLEAN : handleExport(hasContext)
    \/ \E t \in 0..MaxClock : ExportImageLoaded(t)
    \/ \E t \in 0..MaxClock : ExportImageError(t)

SpecExport == Init /\ [][NextExport]_vars

\* the export under the assumption that the image of the awaited layer eventually
\* fires load or error
SpecExportFair ==
    /\ Init
    /\ [][NextExport]_vars
    /\ WF_vars(\E t \in 0..MaxClock : ExportImageLoaded(t) \/ ExportImageError(t))

\* e.clientX, e.clientY of the gestures that shape the layers before an export
BoundsCursors == {[x |-> 400, y |-> 300], [x |-> 300, y |-> 500], [x |-> 200, y |-> 280]}

\* e.deltaY of a zoom step (to scale 2)
BoundsDeltas == {0 - 1000}

\* the layers are rotated, scaled and hidden and the viewport panned and zoomed,
\* then the store is exported; the clock ticks between two uploads
NextBounds ==
    \/ exportJob = NULL /\ FileSelect /\ Uncounted
    \/ \E r \in addReqs, t \in {Len(layers)} :
           exportJob = NULL /\ Len(layers) < MaxLayers /\ AddLayerDone(r, 1, t) /\ Uncounted
    \/ \E d \in decodes, ratio \in Ratios : exportJob = NULL /\ DecodeDone(d, ratio) /\ Uncounted
    \/ \E deltaY \in BoundsDeltas :
           exportJob = NULL /\ events < MaxBoundsEvents /\ handleWheel(deltaY, TRUE) /\ Counted
    \/ \E c \in {[x |-> 400, y |-> 300]} :
           exportJob = NULL /\ events < MaxBoundsEvents /\ PointerDownCanvas(c) /\ Counted
    \/ \E i \in 1..Len(layers), type \in {"rotate", "scale"}, c \in BoundsCursors :
           exportJob = NULL /\ events < MaxBoundsEvents /\ handleTransformStart(i, type, c)
               /\ Counted
    \/ \E c \in BoundsCursors :
           exportJob = NULL /\ events < MaxBoundsEvents /\ handlePointerMove(c) /\ Counted
    \/ \E i \in 1..Len(layers) :
           exportJob = NULL /\ events < MaxBoundsEvents /\ ToggleVisible(i) /\ Counted
    \/ handleExport(TRUE)
    \/ \E t \in {now} : ExportImageLoaded(t)

SpecBounds == Init /\ [][NextBounds]_vars

\* e.clientX, e.clientY of the gestures made during an export
SnapshotCursors == {[x |-> 400, y |-> 300], [x |-> 300, y |-> 500]}

\* values of the opacity slider (hundredths) and of the blend mode buttons
Opacities == {50}
BlendModes == {"multiply"}

\* layers are added, then moved, rotated, scaled, hidden, reordered, restyled,
\* added and removed while an export awaits its images
NextSnapshot ==
    \/ FileSelect /\ Uncounted
    \/ \E r \in addReqs, t \in 0..MaxClock :
           Len(layers) < MaxLayers /\ AddLayerDone(r, 1, t) /\ Uncounted
    \/ \E i \in 1..Len(layers), c \in SnapshotCursors :
           isExporting /\ events < MaxSnapshotEvents /\ PointerDownLayer(i, c) /\ Counted
    \/ \E i \in 1..Len(layers), type \in {"rotate", "scale"}, c \in SnapshotCursors :
           isExporting /\ events < MaxSnapshotEvents /\ handleTransformStart(i, type, c)
               /\ Counted
    \/ \E c \in SnapshotCursors :
           isExporting /\ events < MaxSnapshotEvents /\ handlePointerMove(c) /\ Counted
    \/ \E i \in 1..Len(layers) :
           isExporting /\ events < MaxSnapshotEvents /\ ToggleVisible(i) /\ Counted
    \/ \E i \in 1..Len(layers), d \in {"up", "down"} :
           isExporting /\ events < MaxSnapshotEvents /\ MoveLayerClick(i, d) /\ Counted
    \/ \E i \in 1..Len(layers) :
           isExporting /\ events < MaxSnapshotEvents /\ DeleteLayer(i) /\ Counted
    \/ \E v \in Opacities :
           isExporting /\ events < MaxSnapshotEvents /\ SetOpacity(v) /\ Counted
    \/ \E mode \in BlendModes :
           isExporting /\ events < MaxSnapshotEvents /\ SetBlendMode(mode) /\ Counted
    \/ handleExport(TRUE)
    \/ \E t \in 0..MaxClock : ExportImageLoaded(t)

SpecSnapshot == Init /\ [][NextSnapshot]_vars

\* the images decoded during a background removal
LoadOriginals == {Image(1, 1, <<[r |-> 200, g |-> 100, b |-> 50, a |-> 255]>>)}
LoadMasks == {Image(1, 1, <<MaskPixel(255, "grey")>>), Image(2, 1, <<MaskPixel(0, "grey"),
                                                                     MaskPixel(125, "grey")>>)}

\* removeBackground no longer awaits the mask job
MaskJobConsumed ==
    /\ maskJob' = [maskJob EXCEPT !.awaited = FALSE]
    /\ UNCHANGED <<events, exportVars>>

\* a background removal with its stages: the service call, the two image loads and
\* the composite
NextBackground ==
    \/ FileSelect /\ Uncounted
    \/ \E r \in addReqs, t \in 0..MaxClock :
           Len(layers) < MaxLayers /\ AddLayerDone(r, 1, t) /\ Uncounted
    \/ \E i \in 1..Len(layers) : SelectLayer(i) /\ Uncounted
    \/ RemoveBackground /\ Uncounted
    \/ (IF maskJob = NULL THEN TRUE ELSE ~maskJob.awaited) /\ RemoveBackgroundFail /\ Uncounted
    \/ \E premultiplied \in BOOLEAN : bgReq # NULL /\ applyMaskStart(premultiplied)
    \/ \E original \in LoadOriginals, hasContext \in BOOLEAN :
           OriginalOnload(original, hasContext)
    \/ \E mask \in LoadMasks, hasContext \in BOOLEAN : MaskOnload(mask, hasContext)
    \/ \E which \in {"original", "mask"} : ImageOnerror(which)
    \/ (IF maskJob = NULL THEN FALSE ELSE maskJob.awaited /\ maskJob.settled = "resolved")
           /\ RemoveBackgroundDone /\ MaskJobConsumed
    \/ (IF maskJob = NULL THEN FALSE ELSE maskJob.awaited /\ maskJob.settled = "rejected")
           /\ RemoveBackgroundFail /\ MaskJobConsumed

SpecBackground == Init /\ [][NextBackground]_vars

(* ------------------------------ claims -------------------------------- *)

PointerDownOps == {"pointerDownLayer", "pointerDownLocked", "pointerDownCanvas", "transformStart"}

AnchorsCleared ==
    /\ dragStartRef = NULL
    /\ initialLayerStateRef = NULL
    /\ ~isDraggingLayerRef
    /\ transformRef = NULL

\* C1: a pointer-move never changes the x, y, rotation or scale of a layer that is
\* locked when the pointer-move is handled.
C1_LockedLayersIgnoreMoves ==
    [][lastOp' = "pointerMove" =>
          \A i \in 1..Len(layers) :
              layers[i].isLocked =>
                  /\ layers'[i].x = layers[i].x
                  /\ layers'[i].y = layers[i].y
                  /\ layers'[i].rotation = layers[i].rotation
                  /\ layers'[i].scale = layers[i].scale]_vars

\* C2: a pointer-down on the body of a locked layer leaves the selection, every
\* layer, the viewport and all drag and transform anchors unchanged.
C2_LockedPointerDownChangesNothing ==
    [][lastOp' = "pointerDownLocked" =>
          UNCHANGED <<layers, selectedLayerId, viewport, dragStartRef,
                      initialLayerStateRef, isDraggingLayerRef, transformRef>>]_vars

\* C5: the transform anchor and the drag / pan anchors are never both set.
C5_OneGestureActive ==
    ~(transformRef # NULL /\ dragStartRef # NULL /\ initialLayerStateRef # NULL)

\* C6: the last gesture wins: a pointer-move right after a pointer-down applies only
\* the update of the gesture that pointer-down started (a pan changes no layer; a
\* layer drag changes neither viewport, rotation nor scale; a rotate or scale changes
\* neither viewport nor position).
C6_LastGestureWins ==
    [][lastOp' = "pointerMove" =>
          /\ lastOp = "pointerDownCanvas" => layers' = layers
          /\ lastOp = "pointerDownLayer" =>
                /\ viewport' = viewport
                /\ \A i \in 1..Len(layers) :
                      /\ layers'[i].rotation = layers[i].rotation
                      /\ layers'[i].scale = layers[i].scale
          /\ lastOp = "transformStart" =>
                /\ viewport' = viewport
                /\ \A i \in 1..Len(layers) :
                      /\ layers'[i].x = layers[i].x
                      /\ layers'[i].y = layers[i].y]_vars

\* C7: a pointer-up or pointer-leave clears every anchor; the anchors stay cleared
\* until the next pointer-down; and a pointer-move handled while they are cleared
\* changes no layer and not the viewport.
C7_PointerUpClearsAnchors ==
    [][/\ lastOp' \in {"pointerUp", "pointerLeave"} => AnchorsCleared'
       /\ (AnchorsCleared /\ lastOp' \notin PointerDownOps) => AnchorsCleared'
       /\ (AnchorsCleared /\ lastOp' = "pointerMove") =>
              (layers' = layers /\ viewport' = viewport)]_vars

\* C7 witness: after a rotate gesture has turned a layer, the anchors are cleared and
\* a pointer-move has been handled in that state.
C7_Witness ==
    /\ lastOp = "pointerMove"
    /\ AnchorsCleared
    /\ \E i \in 1..Len(layers) : layers[i].rotation # 0

\* the zIndex-sorted render order
RenderOrder(s) == SortByZ(s)

Opposite(direction) == IF direction = "up" THEN "down" ELSE "up"

\* moveZ(id, direction) followed by moveZ(id, the opposite direction)
ThereAndBack(s, id, direction) ==
    moveLayer(moveLayer(s, id, direction), id, Opposite(direction))

Exchanges(s, id, direction) ==
    LET sorted == SortByZ(s)
        index == FindIndex(sorted, id)
        targetIndex == IF direction = "up" THEN index + 1 ELSE index - 1
    IN  /\ index # 0
        /\ targetIndex \in 1..Len(sorted)
        /\ sorted[targetIndex].zIndex # sorted[index].zIndex
        /\ sorted[targetIndex].id # id

Erase(l) == [l EXCEPT !.zIndex = 0]

\* the layers by rank in the render order
Ranks(s) == [k \in 1..Len(s) |-> Erase(SortByZ(s)[k])]

\* C4: for every layer that moveZ finds by its id and that is not last in the
\* render order, moveZ(id, up) exchanges its rank with the next rank and leaves all
\* other ranks unchanged (symmetrically for down and the first rank).
C4_MoveIsAdjacentSwap ==
    \A k \in 1..Len(layers) :
        LET sorted == SortByZ(layers)
            id == sorted[k].id
            ranks == Ranks(layers)
        IN  FindIndex(sorted, id) = k =>
                /\ k < Len(layers) =>
                      Ranks(moveLayer(layers, id, "up")) =
                          [ranks EXCEPT ![k] = ranks[k + 1], ![k + 1] = ranks[k]]
                /\ k > 1 =>
                      Ranks(moveLayer(layers, id, "down")) =
                          [ranks EXCEPT ![k] = ranks[k - 1], ![k - 1] = ranks[k]]

\* C8: every layer's originalSrc is the source it was created with, and a layer whose
\* isMasked is false displays that originalSrc.
C8_OriginalSrcKept ==
    \A i \in 1..Len(layers) :
        /\ layers[i].originalSrc = layers[i].createdSrc
        /\ ~layers[i].isMasked => layers[i].src = layers[i].originalSrc

\* C9: the completion of an image decode or of a background removal whose layer was
\* deleted while it was in flight leaves the layer store unchanged.
C9_StaleCompletionIsNoOp ==
    [][/\ \A d \in decodes, ratio \in Ratios :
              (d.orphan /\ DecodeDone(d, ratio)) => layers' = layers
       /\ (bgReq # NULL /\ bgReq.orphan /\ RemoveBackgroundDone) => layers' = layers]_vars

\* C10: no two layers of the store have the same id.
C10_UniqueIds ==
    \A i, j \in 1..Len(layers) : i # j => layers[i].id # layers[j].id

\* C11: the selection is none or the id of a layer of the store; deleting a layer
\* clears the selection when it holds that layer's id and leaves it unchanged otherwise.
C11_SelectionIsALayer ==
    [][/\ \/ selectedLayerId' = NoSelection
          \/ \E i \in 1..Len(layers') : layers'[i].id = selectedLayerId'
       /\ \A i \in 1..Len(layers) :
              (lastOp' = "delete" /\ layers' = RemoveId(layers, layers[i].id)) =>
                  selectedLayerId' = IF selectedLayerId = layers[i].id
                                     THEN NoSelection ELSE selectedLayerId]_vars

\* C11 witness: a layer other than the selected one has been deleted and the
\* selection still names a layer of the store.
C11_Witness ==
    /\ lastOp = "delete"
    /\ selectedLayerId # NoSelection
    /\ getSelectedLayerIndex # 0

\* C12: the viewport scale lies in [0.1, 5].
C12_ZoomClamped ==
    viewport.scale >= MIN_ZOOM /\ viewport.scale <= MAX_ZOOM

\* C12 witness: a wheel event during a pan has driven the scale to the lower limit.
C12_Witness ==
    /\ lastOp = "wheel"
    /\ viewport.scale = MIN_ZOOM
    /\ gesture.kind = "pan"

\* C13: a wheel event changes neither the viewport offset, nor a layer, nor the
\* selection, nor a gesture anchor; without a zoom modifier it changes nothing.
C13_WheelFrame ==
    [][/\ lastOp' = "wheel" =>
              /\ viewport'.x = viewport.x
              /\ viewport'.y = viewport.y
              /\ UNCHANGED <<layers, selectedLayerId, dragStartRef, initialLayerStateRef,
                             isDraggingLayerRef, transformRef>>
       /\ \A deltaY \in WheelDeltas :
              handleWheel(deltaY, FALSE) => viewport' = viewport]_vars

\* C13 witness: a wheel event has been handled with the viewport panned and zoomed
\* and a layer drag in progress.
C13_Witness ==
    /\ lastOp = "wheel"
    /\ viewport.scale # 1000
    /\ dragStartRef # NULL
    /\ isDraggingLayerRef

\* C14: every layer's scale is at least 0.1.
C14_ScaleFloor ==
    \A i \in 1..Len(layers) : layers[i].scale >= 1

\* C14 witness: a pointer-move of a scale gesture has brought a layer down to the floor.
C14_Witness ==
    /\ lastOp = "pointerMove"
    /\ transformRef # NULL
    /\ transformRef.type = "scale"
    /\ \E i \in 1..Len(layers) : layers[i].scale = 1

\* C15: a pointer-move of a scale gesture sets the scale to max(0.1, anchor scale *
\* current distance / anchor distance), with an anchor distance below 1 px (0
\* included) taken as 1 px.
C15_MinimumAnchorDistance ==
    [][\A c \in TransformCursors :
          (/\ transformRef # NULL
           /\ transformRef.type = "scale"
           /\ selectedLayerId # NoSelection
           /\ handlePointerMove(c)) =>
              \A i \in 1..Len(layers) :
                  layers[i].id = selectedLayerId =>
                      layers'[i].scale =
                          Max(1, (transformRef.startVal
                                  * Hypot(10 * c.x - transformRef.centerX,
                                          10 * c.y - transformRef.centerY))
                                 \div Max(10, transformRef.startCursor))]_vars

\* two cursor positions at most 20 px apart
Near(c1, c2) == Abs(c1.x - c2.x) + Abs(c1.y - c2.y) <= 20

\* the cursor is at least 50 px from the centre of the transform anchor
AwayFromCenter(ref, c) == Hypot(10 * c.x - ref.centerX, 10 * c.y - ref.centerY) >= 500

\* C16: within a rotate gesture the rotation changes continuously with the cursor:
\* two pointer-moves at nearby cursor positions away from the centre give rotations
\* less than half a turn apart (no jump of 360 degrees).
C16_RotationContinuous ==
    (transformRef # NULL /\ transformRef.type = "rotate") =>
        \A c1, c2 \in TransformCursors :
            (Near(c1, c2) /\ AwayFromCenter(transformRef, c1)
                          /\ AwayFromCenter(transformRef, c2)) =>
                Abs(TransformMove(transformRef, c1).rotation
                    - TransformMove(transformRef, c2).rotation) < 180

\* C17: in DraggingLayer a pointer-move sets the dragged layer's position to anchor
\* position + (cursor - anchor cursor) / viewport scale on both axes and leaves the
\* viewport, the selection and every other layer unchanged.
C17_DragFormula ==
    [][\A c \in Cursors :
          (gesture.kind = "drag" /\ handlePointerMove(c)) =>
              LET k == FindIndex(layers, gesture.id)
              IN  (k # 0 /\ ~layers[k].isLocked) =>
                      /\ layers'[k].x = initialLayerStateRef.x
                                        + ((c.x - dragStartRef.x) * 1000) \div viewport.scale
                      /\ layers'[k].y = initialLayerStateRef.y
                                        + ((c.y - dragStartRef.y) * 1000) \div viewport.scale
                      /\ \A j \in 1..Len(layers) : j # k => layers'[j] = layers[j]
                      /\ viewport' = viewport
                      /\ selectedLayerId' = selectedLayerId]_vars

\* C18: in PanningViewport a pointer-move sets the viewport offset to anchor offset +
\* (cursor - anchor cursor), in screen pixels, and leaves the viewport scale, the
\* selection and every layer unchanged.
C18_PanFormula ==
    [][\A c \in Cursors :
          (gesture.kind = "pan" /\ handlePointerMove(c)) =>
              /\ viewport'.x = initialLayerStateRef.x + (c.x - dragStartRef.x)
              /\ viewport'.y = initialLayerStateRef.y + (c.y - dragStartRef.y)
              /\ viewport'.scale = viewport.scale
              /\ selectedLayerId' = selectedLayerId
              /\ layers' = layers]_vars

\* C19: the alpha written for a mask value m is 0 when m <= 50, 255 when m >= 200 and
\* floor((m - 50) * 255 / 150) otherwise; it is an integer in 0..255, non-decreasing
\* in m, and 0, 255 and 125 give 0, 255 and 127.
C19_LevelsCurve ==
    (maskJob # NULL /\ maskJob.done) =>
        /\ \A k \in 1..Len(maskJob.data) :
               LET m == maskJob.mData[k].r
                   alpha == maskJob.data[k].a
               IN  /\ alpha \in 0..255
                   /\ m <= 50 => alpha = 0
                   /\ m >= 200 => alpha = 255
                   /\ (m > 50 /\ m < 200) => alpha = ((m - 50) * 255) \div 150
        /\ \A m \in 0..254 : Levels(m) <= Levels(m + 1)
        /\ Levels(0) = 0
        /\ Levels(255) = 255
        /\ Levels(125) = 127

\* C19 witness: a composite has been made from a mask value on the ramp.
C19_Witness ==
    /\ maskJob # NULL
    /\ maskJob.done
    /\ maskJob.mData[1].r = 125
    /\ maskJob.data[1].a = 127

\* C20: the image delivered has the original's width and height, every pixel has the
\* original's R, G and B, and its alpha is the levels value of the red channel of
\* the mask pixel at its position.
C20_OnlyAlphaChanges ==
    (maskJob # NULL /\ maskJob.done) =>
        LET w == maskJob.original.width
            h == maskJob.original.height
            maskAt == Stretch(maskJob.mask, w, h)
        IN  /\ maskJob.output.width = w
            /\ maskJob.output.height = h
            /\ Len(maskJob.output.pixels) = w * h
            /\ \A k \in 1..(w * h) :
                   /\ maskJob.output.pixels[k].r = maskJob.original.pixels[k].r
                   /\ maskJob.output.pixels[k].g = maskJob.original.pixels[k].g
                   /\ maskJob.output.pixels[k].b = maskJob.original.pixels[k].b
                   /\ maskJob.output.pixels[k].a = Levels(maskAt[k].r)

\* C21: an export invoked when no layer is visible fails at once with the empty
\* export error: no bitmap is produced, no image is decoded or drawn, isExporting
\* ends false, and the layers, the selection and the viewport are unchanged.
C21_EmptyExportFailsFast ==
    [][\A hasContext \in BOOLEAN :
          (handleExport(hasContext) /\ \A i \in 1..Len(layers) : ~layers[i].isVisible) =>
              /\ exportJob'.status = "failed"
              /\ exportJob'.error = "No visible layers"
              /\ exportJob'.output = NULL
              /\ exportJob'.decoded = <<>>
              /\ exportJob'.drawn = <<>>
              /\ ~isExporting'
              /\ layers' = layers
              /\ selectedLayerId' = selectedLayerId
              /\ viewport' = viewport]_vars

\* C21 witness: an export of a store whose layers are all hidden has failed.
C21_Witness ==
    /\ lastOp = "export"
    /\ Len(layers) > 0
    /\ \A i \in 1..Len(layers) : ~layers[i].isVisible
    /\ exportJob.error = "No visible layers"

\* the place in the draw order of layer i of a snapshot: after the visible layers
\* with a smaller zIndex and those with the same zIndex that come before it
DrawRank(snapshot, i) ==
    1 + Cardinality({j \in 1..Len(snapshot) :
                        /\ snapshot[j].isVisible
                        /\ \/ snapshot[j].zIndex < snapshot[i].zIndex
                           \/ snapshot[j].zIndex = snapshot[i].zIndex /\ j < i})

\* C22: an export draws the visible layers of its snapshot in ascending zIndex
\* order, ties in store order, one at a time: a decode starts only when every
\* earlier layer was drawn or skipped, no layer is drawn twice, and no hidden layer
\* is decoded or drawn.
C22_DrawsInZOrder ==
    (exportJob # NULL /\ exportJob.status # "failed") =>
        LET job == exportJob
            n == Len(job.sorted)
        IN  /\ n = Cardinality({i \in 1..Len(job.snapshot) : job.snapshot[i].isVisible})
            /\ \A i \in 1..Len(job.snapshot) :
                   job.snapshot[i].isVisible =>
                       job.sorted[DrawRank(job.snapshot, i)] = job.snapshot[i]
            /\ job.decoded = [k \in 1..Len(job.decoded) |-> k]
            /\ Len(job.decoded) = IF job.status = "decoding" THEN job.pos ELSE n
            /\ Len(job.drawnAt) + Len(job.skipped) =
                   IF job.status = "decoding" THEN job.pos - 1 ELSE n
            /\ \A a, b \in 1..Len(job.drawnAt) : a < b => job.drawnAt[a] < job.drawnAt[b]
            /\ Len(job.drawn) = Len(job.drawnAt)
            /\ \A a \in 1..Len(job.drawn) :
                   /\ job.drawnAt[a] \in 1..Len(job.decoded)
                   /\ job.sorted[job.drawnAt[a]].isVisible
                   /\ job.drawn[a] = DrawOp(job.sorted[job.drawnAt[a]], job.box)
            /\ job.status = "delivered" => job.output.draws = job.drawn

\* C22 witness: an export of three layers, the second one hidden and the store not
\* in zIndex order, has drawn the other two.
C22_Witness ==
    /\ exportJob # NULL
    /\ exportJob.status = "delivered"
    /\ Len(exportJob.snapshot) = 3
    /\ ~exportJob.snapshot[2].isVisible
    /\ exportJob.snapshot[1].zIndex > exportJob.snapshot[3].zIndex
    /\ Len(exportJob.drawn) = 2

\* C23: when the image of a layer fails to load during an export the layer is
\* skipped: nothing is drawn for it, the draws made stay, the export goes on to the
\* next layer or delivers the bitmap, and no export error is raised; a delivered
\* bitmap holds every layer whose image loaded, in sorted order.
C23_FailedImageIsSkipped ==
    /\ [][\A t \in 0..MaxClock :
              ExportImageError(t) =>
                  /\ exportJob'.drawn = exportJob.drawn
                  /\ exportJob'.error = ""
                  /\ IF exportJob.pos < Len(exportJob.sorted)
                     THEN /\ exportJob'.status = "decoding"
                          /\ exportJob'.pos = exportJob.pos + 1
                     ELSE /\ exportJob'.status = "delivered"
                          /\ exportJob'.output # NULL
                          /\ exportJob'.output.draws = exportJob.drawn]_vars
    /\ []((exportJob # NULL /\ exportJob.status = "delivered") =>
             /\ exportJob.output # NULL
             /\ \A k \in 1..Len(exportJob.sorted) :
                    \/ \E a \in 1..Len(exportJob.drawnAt) : exportJob.drawnAt[a] = k
                    \/ \E a \in 1..Len(exportJob.skipped) : exportJob.skipped[a] = k
             /\ \A a, b \in 1..Len(exportJob.drawnAt) :
                    a < b => exportJob.drawnAt[a] < exportJob.drawnAt[b])

\* C23 witness: a bitmap was delivered although the image of the first of three
\* layers failed to load.
C23_Witness ==
    /\ exportJob # NULL
    /\ exportJob.status = "delivered"
    /\ exportJob.skipped = <<1>>
    /\ Len(exportJob.drawn) = 2

\* the bounding box of a layer about its centre, scale then rotation applied, in
\* 20000ths of a pixel: half extents w*s*|cos| + h*s*|sin| and w*s*|sin| + h*s*|cos|
LayerBox(l) ==
    LET cx == (2 * l.x + l.width) * 10000
        cy == (2 * l.y + l.height) * 10000
        hw == l.scale * (l.width * Abs(CosDeg(l.rotation)) + l.height * Abs(SinDeg(l.rotation)))
        hh == l.scale * (l.width * Abs(SinDeg(l.rotation)) + l.height * Abs(CosDeg(l.rotation)))
    IN  [left |-> cx - hw, right |-> cx + hw, top |-> cy - hh, bottom |-> cy + hh]

Turned(s, k) == [i \in 1..Len(s) |-> [s[i] EXCEPT !.rotation = @ + 360 * k]]

PlannedDraws(job) == [k \in 1..Len(job.sorted) |-> DrawOp(job.sorted[k], job.box)]

\* C30: while an export awaits its images, nothing that happens to the store changes
\* the bitmap size it fixed, the layers it will draw or their order, or the
\* transform, opacity, blend mode and source it draws each of them with: every draw
\* made is the planned one, and the bitmap delivered has the size fixed at the start.
C30_ExportUsesItsSnapshot ==
    [][(exportJob # NULL /\ exportJob.status = "decoding") =>
          /\ exportJob'.box = exportJob.box
          /\ PlannedDraws(exportJob') = PlannedDraws(exportJob)
          /\ \/ exportJob'.drawn = exportJob.drawn
             \/ exportJob'.drawn = Append(exportJob.drawn,
                                           PlannedDraws(exportJob)[exportJob.pos])
          /\ exportJob'.status = "delivered" =>
                 /\ exportJob'.output.width = CanvasSize(exportJob.box.width)
                 /\ exportJob'.output.height = CanvasSize(exportJob.box.height)
                 /\ exportJob'.output.draws = exportJob'.drawn]_vars

\* C30 witness: a bitmap was delivered with a draw of a layer that the store now
\* holds with another rotation, position, visibility or place in the order.
C30_Witness ==
    /\ exportJob # NULL
    /\ exportJob.status = "delivered"
    /\ Len(exportJob.drawn) = 2
    /\ Len(layers) = 2
    /\ layers[1].id # layers[2].id
    /\ \E a \in 1..2 :
           LET k == FindIndex(layers, exportJob.drawn[a].id)
           IN  /\ k # 0
               /\ layers[k].rotation # exportJob.drawn[a].rotation
    /\ \E a \in 1..2 :
           LET k == FindIndex(layers, exportJob.drawn[a].id)
           IN  /\ k # 0
               /\ ~layers[k].isVisible

\* C26: every store operation is copy-on-write: after it the previous store value
\* reads as before, and the updater applied again to that value gives the same
\* result. (add, remove and update build new arrays and objects; moveZ is the
\* operation that writes.)
C26_CopyOnWrite ==
    [][\A i \in 1..Len(layers), d \in {"up", "down"} :
          MoveLayerClick(i, d) =>
              /\ moveLayerWrites(layers, layers[i].id, d) = layers
              /\ moveLayer(moveLayerWrites(layers, layers[i].id, d), layers[i].id, d) = layers']_vars

\* how many layers of s equal r, and how many equal it but for the zIndex
Count(s, r) == Cardinality({i \in 1..Len(s) : s[i] = r})
CountButZ(s, r) == Cardinality({i \in 1..Len(s) : [s[i] EXCEPT !.zIndex = 0] = [r EXCEPT !.zIndex = 0]})
CountZ(s, z) == Cardinality({i \in 1..Len(s) : s[i].zIndex = z})

\* C29: moveZ returns the store unchanged when the layer is last in sorted order
\* and goes up, or first and goes down, or when the id is not in the store;
\* otherwise it changes the zIndex of exactly two layers and keeps the multiset of
\* zIndex values and every other field of every layer.
C29_MoveIsNoOpOrSwap ==
    [][\A i \in 1..Len(layers), d \in {"up", "down"} :
          MoveLayerClick(i, d) =>
              LET sorted == SortByZ(layers)
                  last == sorted[Len(sorted)]
                  first == sorted[1]
              IN  IF (d = "up" /\ layers[i] = last) \/ (d = "down" /\ layers[i] = first)
                  THEN layers' = layers
                  ELSE /\ moveLayer(layers, NoSelection, d) = layers
                       /\ Len(layers') = Len(layers)
                       /\ Cardinality({k \in 1..Len(layers) :
                              Count(layers, layers[k]) > Count(layers', layers[k])}) = 2
                       /\ \A k \in 1..Len(layers) :
                              /\ CountZ(layers', layers[k].zIndex) = CountZ(layers, layers[k].zIndex)
                              /\ CountButZ(layers', layers[k]) = CountButZ(layers, layers[k])]_vars

\* C27: whatever the order of the load and error events of the two images, the
\* composite runs at most once and only when both images have loaded; when an image
\* failed to load the promise is rejected and no composited image is delivered.
C27_CompositeOnceAfterBothLoaded ==
    /\ [](maskJob # NULL =>
             /\ maskJob.composites <= 1
             /\ maskJob.composites = 1 =>
                    /\ maskJob.original # NULL
                    /\ maskJob.mask # NULL
                    /\ maskJob.errors = {}
             /\ maskJob.errors # {} =>
                    /\ maskJob.settled = "rejected"
                    /\ ~maskJob.done
                    /\ maskJob.output = Image(0, 0, <<>>)
             /\ maskJob.done => maskJob.composites = 1 /\ maskJob.settled = "resolved")
    /\ [][(maskJob # NULL /\ maskJob' # NULL /\ maskJob'.composites > maskJob.composites) =>
              /\ lastOp' \in {"originalOnload", "maskOnload"}
              /\ maskJob.composites = 0
              /\ maskJob.original # NULL \/ maskJob.mask # NULL]_vars

\* C27 witness: the mask failed to load, the promise was rejected, and the original
\* loaded afterwards without a composite.
C27_Witness ==
    /\ maskJob # NULL
    /\ lastOp = "originalOnload"
    /\ maskJob.errors = {"mask"}
    /\ maskJob.original # NULL
    /\ maskJob.settled = "rejected"
    /\ maskJob.composites = 0

\* C28: a background removal that fails at any stage leaves the src, isMasked and
\* originalSrc of every layer as they were when it was requested, issues no new
\* request, and ends with the loading flag false.
C28_FailedRemovalChangesNothing ==
    /\ [][lastOp' = "removeBackgroundFail" =>
              /\ layers' = layers
              /\ bgReq' = NULL
              /\ ~aiLoading'
              /\ \A i \in 1..Len(layers) :
                     layers[i].id = bgReq.id =>
                         /\ layers[i].isMasked = FALSE
                         /\ layers[i].originalSrc = bgReq.originalSrc]_vars
    /\ [][(bgReq # NULL /\ lastOp' # "removeBackgroundDone") =>
              \A i \in 1..Len(layers) :
                  /\ layers'[i].src = layers[i].src
                  /\ layers'[i].isMasked = layers[i].isMasked
                  /\ layers'[i].originalSrc = layers[i].originalSrc]_vars
    /\ [][(bgReq = NULL /\ bgReq' # NULL) => lastOp' = "removeBackground"]_vars

\* C28 witness: the removal failed because the original did not decode; the layer
\* keeps its source and is not masked.
C28_Witness ==
    /\ lastOp = "removeBackgroundFail"
    /\ maskJob # NULL
    /\ "original" \in maskJob.errors
    /\ ~aiLoading
    /\ Len(layers) = 1
    /\ layers[1].src = layers[1].createdSrc
    /\ ~layers[1].isMasked

\* C31: a newly added layer is on top: its zIndex is greater than the zIndex of
\* every layer already in the store.
C31_NewLayerOnTop ==
    [][lastOp' = "addLayer" =>
          /\ Len(layers') = Len(layers) + 1
          /\ \A i \in 1..Len(layers) : layers'[Len(layers')].zIndex > layers[i].zIndex]_vars

\* the fields of a layer that a decode leaves alone
ButSize(l) == [l EXCEPT !.width = 0, !.height = 0]

\* C32: when the image of a new layer has decoded, only that layer changes, and
\* only in its height and its width, which is set to the initial width again;
\* every other field keeps the value it has then, and every other layer is unchanged.
C32_DecodeChangesOnlySize ==
    [][\A d \in decodes, ratio \in Ratios :
          DecodeDone(d, ratio) =>
              /\ Len(layers') = Len(layers)
              /\ \A i \in 1..Len(layers) :
                     /\ ButSize(layers'[i]) = ButSize(layers[i])
                     /\ layers'[i] # layers[i] =>
                            /\ layers[i].id = d.id
                            /\ layers'[i].width = INITIAL_LAYER_WIDTH
              /\ Cardinality({i \in 1..Len(layers) : layers'[i] # layers[i]}) <= 1]_vars


\* C33: a drag, rotate or scale gesture modifies only the layer that was selected when
\* the gesture started: when the selection changes before pointer-up, a pointer-move
\* changes no layer other than the gesture's own.
C33_GestureKeepsItsLayer ==
    [][\A c \in Cursors :
          (gesture.kind \in {"drag", "rotate", "scale"} /\ handlePointerMove(c)) =>
              \A j \in 1..Len(layers) :
                  layers'[j] # layers[j] => layers[j].id = gesture.id]_vars


\* an export has passed its synchronous part and awaits the image of a layer
ExportInProgress == IF exportJob = NULL THEN FALSE ELSE exportJob.status = "decoding"

\* C34: at most one export is in progress at a time (an export starts only while
\* isExporting is false, and isExporting is set exactly while an export awaits an
\* image), and every started export eventually sets isExporting back to false,
\* whether it is delivered, fails or skips layers whose image failed, provided the
\* image of each layer eventually fires load or error.
C34_OneExportAndItEnds ==
    /\ [][\A hasContext \in BOOLEAN : handleExport(hasContext) => ~isExporting]_vars
    /\ [](isExporting <=> ExportInProgress)
    /\ ExportInProgress ~> ~isExporting

\* C34 witness: an export that skipped a failed layer has been delivered, the image
\* of its last layer having failed, and isExporting is false again.
C34_Witness ==
    /\ lastOp = "exportImageError"
    /\ ~isExporting
    /\ exportJob # NULL
    /\ exportJob.status = "delivered"
    /\ Len(exportJob.sorted) >= 2
    /\ Len(exportJob.skipped) >= 1

====
